---------------------------- MODULE Spec2Model ----------------------------
(***************************************************************************)
(* Model of scripts/generate-marketplace.js: the generator that scans a    *)
(* skills directory, parses the frontmatter of every SKILL.md, resolves    *)
(* catalog defaults from package.json and writes marketplace.json.         *)
(*                                                                         *)
(* Strings are sequences of one-character strings, so that indexOf, slice, *)
(* trim, split, replace and toLowerCase are computed character by          *)
(* character as the JavaScript does.  JavaScript values are tagged         *)
(* records: [t |-> "undefined"], [t |-> "null"], [t |-> "string", s |-> _],*)
(* [t |-> "number"] (a truthy non-string primitive), [t |-> "boolean"],    *)
(* [t |-> "array"], [t |-> "object", ...].  A key that an object does not  *)
(* have is a field holding Undefined: the code only reads properties, and  *)
(* JSON.stringify omits undefined-valued keys.                             *)
(***************************************************************************)
EXTENDS Integers, Sequences, FiniteSets, TLC

(***************************************************************************)
(* Bounds of the model.                                                    *)
(***************************************************************************)
\* longest directory listing of the skills directory
MaxEntries == 2
\* longest frontmatter body (characters between the two --- markers)
MaxBody == 6
\* longest package.json name that is enumerated exhaustively
MaxLen == 3
\* invocations of the script in one behaviour
MaxRuns == 2

(***************************************************************************)
(* Strings.                                                                *)
(***************************************************************************)
NL == "\n"

\* the characters String.prototype.trim strips, among those the model uses
Whitespace == {" ", NL}

\* the positions of s that hold a character other than whitespace
Inked(s) == { i \in 1..Len(s) : s[i] \notin Whitespace }

\* String.prototype.trimStart
TrimStart(s) ==
    IF Inked(s) = {} THEN <<>>
    ELSE SubSeq(s, CHOOSE i \in Inked(s) : \A j \in Inked(s) : i <= j, Len(s))

\* String.prototype.trimEnd
TrimEnd(s) ==
    IF Inked(s) = {} THEN <<>>
    ELSE SubSeq(s, 1, CHOOSE i \in Inked(s) : \A j \in Inked(s) : j <= i)

\* String.prototype.trim
Trim(s) == TrimEnd(TrimStart(s))

\* String.prototype.indexOf for a one-character needle: 0-based, -1 if absent
IndexOf(s, c) ==
    IF \E i \in 1..Len(s) : s[i] = c
    THEN (CHOOSE i \in 1..Len(s) : s[i] = c /\ \A j \in 1..(i - 1) : s[j] # c) - 1
    ELSE -1

\* String.prototype.slice(from, to) with 0-based non-negative bounds
Slice(s, from, to) == SubSeq(s, from + 1, to)

\* String.prototype.slice(from)
SliceFrom(s, from) == SubSeq(s, from + 1, Len(s))

\* String.prototype.split for a one-character separator
\* the 1-based positions of the occurrences of c in s
Occurrences(s, c) == { i \in 1..Len(s) : s[i] = c }

\* the position of the k-th occurrence of c in s; 0 for k = 0 and
\* Len(s) + 1 past the last one
Occurrence(s, c, k) ==
    IF k = 0 THEN 0
    ELSE IF k > Cardinality(Occurrences(s, c)) THEN Len(s) + 1
    ELSE CHOOSE i \in Occurrences(s, c) :
             Cardinality({ j \in Occurrences(s, c) : j < i }) = k - 1

\* String.prototype.split for a one-character separator: the pieces between
\* consecutive occurrences
Split(s, c) ==
    [k \in 1..(Cardinality(Occurrences(s, c)) + 1) |->
        SubSeq(s, Occurrence(s, c, k - 1) + 1, Occurrence(s, c, k) - 1)]

StartsWith(s, p) == Len(s) >= Len(p) /\ SubSeq(s, 1, Len(p)) = p

(***************************************************************************)
(* JavaScript values.                                                      *)
(***************************************************************************)
Undefined == [t |-> "undefined"]
Null == [t |-> "null"]
NumV == [t |-> "number"]
StrV(s) == [t |-> "string", s |-> s]
BoolV(b) == [t |-> "boolean", b |-> b]
ArrV(a) == [t |-> "array", a |-> a]

\* ToBoolean, as || and if apply it (NumV stands for a non-zero number)
Truthy(v) ==
    CASE v.t = "undefined" -> FALSE
      [] v.t = "null" -> FALSE
      [] v.t = "string" -> v.s # <<>>
      [] v.t = "boolean" -> v.b
      [] OTHER -> TRUE

\* a || b
Or(a, b) == IF Truthy(a) THEN a ELSE b

(***************************************************************************)
(* parseFrontmatter (lines 76-97).                                         *)
(***************************************************************************)
Dashes == <<"-", "-", "-">>

\* /^---\n([\s\S]*?)\n---/ : the offsets n at which the closing "\n---" may
\* start, counted from the end of the opening "---\n"
CloseOffsets(content) ==
    { n \in 0..(Len(content) - 8) :
        SubSeq(content, 5 + n, 8 + n) = <<NL>> \o Dashes }

\* content.match(frontmatterRegex) succeeds
HasFrontmatter(content) ==
    /\ StartsWith(content, Dashes \o <<NL>>)
    /\ CloseOffsets(content) # {}

\* match[1]: the lazy group stops at the first closing marker
FrontmatterBody(content) ==
    LET n == CHOOSE m \in CloseOffsets(content) :
                 \A k \in CloseOffsets(content) : m <= k
    IN  SubSeq(content, 5, 4 + n)

\* mutant: a key that is already set keeps its first value
SetKey_KeepFirst(fm, key, value) == fm @@ (key :> value)

\* frontmatter[key] = value
SetKey(fm, key, value) == (key :> value) @@ fm

\* one iteration of the loop over the lines, with the guard colonIndex > 0
ParseLine(fm, line) ==
    LET colonIndex == IndexOf(line, ":")
    IN  IF colonIndex > 0
        THEN SetKey(fm, Trim(Slice(line, 0, colonIndex)),
                        Trim(SliceFrom(line, colonIndex + 1)))
        ELSE fm

\* the for loop over the lines, in order
ParseLines(fm, lines) ==
    LET after[n \in 0..Len(lines)] ==
            IF n = 0 THEN fm ELSE ParseLine(after[n - 1], lines[n])
    IN  after[Len(lines)]

\* the empty object {}
EmptyObject == [k \in {} |-> <<>>]

parseFrontmatter(content) ==
    IF ~HasFrontmatter(content) THEN EmptyObject
    ELSE ParseLines(EmptyObject, Split(FrontmatterBody(content), NL))

\* frontmatter.<key>: a string when the key was set, undefined otherwise
Prop(fm, key) == IF key \in DOMAIN fm THEN StrV(fm[key]) ELSE Undefined

(***************************************************************************)
(* String constants of the script.                                         *)
(***************************************************************************)
K_name == <<"n", "a", "m", "e">>
K_description == <<"d", "e", "s", "c", "r", "i", "p", "t", "i", "o", "n">>
K_version == <<"v", "e", "r", "s", "i", "o", "n">>
K_author == <<"a", "u", "t", "h", "o", "r">>
K_keywords == <<"k", "e", "y", "w", "o", "r", "d", "s">>
K_category == <<"c", "a", "t", "e", "g", "o", "r", "y">>

\* line 31
DefaultOutput == <<".", "c", "l", "a", "u", "d", "e", "-", "p", "l", "u", "g", "i", "n", "/", "m", "a", "r", "k", "e", "t", "p", "l", "a", "c", "e", ".", "j", "s", "o", "n">>
\* line 32
DefaultSkillsDir == <<"s", "k", "i", "l", "l", "s">>
\* line 157
FallbackName == <<"s", "k", "i", "l", "l", "s", "-", "m", "a", "r", "k", "e", "t", "p", "l", "a", "c", "e">>
\* line 158
FallbackOwner == <<"S", "k", "i", "l", "l", "s", " ", "T", "e", "a", "m">>
\* line 159
FallbackDescription == <<"A", " ", "c", "o", "l", "l", "e", "c", "t", "i", "o", "n", " ", "o", "f", " ", "C", "l", "a", "u", "d", "e", " ", "C", "o", "d", "e", " ", "s", "k", "i", "l", "l", "s">>
\* line 129, the template `Skill: ${entry.name}`
SkillPrefix == <<"S", "k", "i", "l", "l", ":", " ">>

(***************************************************************************)
(* getDefaults (lines 155-188).                                            *)
(***************************************************************************)
LowerLetters == <<"a", "b", "c", "d", "e", "f", "g", "h", "i", "j", "k", "l", "m", "n", "o", "p", "q", "r", "s", "t", "u", "v", "w", "x", "y", "z">>
UpperLetters == <<"A", "B", "C", "D", "E", "F", "G", "H", "I", "J", "K", "L", "M", "N", "O", "P", "Q", "R", "S", "T", "U", "V", "W", "X", "Y", "Z">>
Digits == {"0", "1", "2", "3", "4", "5", "6", "7", "8", "9"}

Range(f) == { f[i] : i \in DOMAIN f }

\* the class [a-z0-9-] under the i flag
TokenChar(c) ==
    c \in Range(LowerLetters) \cup Range(UpperLetters) \cup Digits \cup {"-"}

\* String.prototype.toLowerCase on one character
ToLowerChar(c) ==
    IF c \in Range(UpperLetters)
    THEN LowerLetters[CHOOSE i \in 1..26 : UpperLetters[i] = c]
    ELSE c

\* mutant: the regular expression without the i flag
ReplaceChar_CaseSensitive(c) ==
    IF c \in Range(LowerLetters) \cup Digits \cup {"-"} THEN c ELSE "-"

\* .replace(/[^a-z0-9-]/gi, '-') on one character
ReplaceChar(c) == IF TokenChar(c) THEN c ELSE "-"

\* pkg.name.replace(/[^a-z0-9-]/gi, '-').toLowerCase()  (line 167)
Sanitize(s) == [i \in 1..Len(s) |-> ToLowerChar(ReplaceChar(s[i]))]

\* v.<key> for a value other than null and undefined
Get(v, key) ==
    IF v.t = "object" /\ key \in DOMAIN v THEN v[key] ELSE Undefined

\* lines 156-160
FallbackDefaults ==
    [name |-> StrV(FallbackName),
     owner |-> StrV(FallbackOwner),
     description |-> StrV(FallbackDescription),
     email |-> Undefined]

\* lines 166-168; only called with a string or a falsy pkg.name
ResolveName(d, name) ==
    IF Truthy(name) THEN [d EXCEPT !.name = StrV(Sanitize(name.s))] ELSE d

\* mutant: the email is taken from an author object even when it has no name
ResolveOwner_EmailWithoutName(d, author) ==
    IF ~Truthy(author) THEN d
    ELSE IF author.t = "string" THEN [d EXCEPT !.owner = author]
    ELSE LET named == IF Truthy(Get(author, "name"))
                      THEN [d EXCEPT !.owner = Get(author, "name")]
                      ELSE d
         IN  IF Truthy(Get(author, "email"))
             THEN [named EXCEPT !.email = Get(author, "email")]
             ELSE named

\* lines 169-178
ResolveOwner(d, author) ==
    IF ~Truthy(author) THEN d
    ELSE IF author.t = "string" THEN [d EXCEPT !.owner = author]
    ELSE IF Truthy(Get(author, "name"))
         THEN IF Truthy(Get(author, "email"))
              THEN [d EXCEPT !.owner = Get(author, "name"),
                             !.email = Get(author, "email")]
              ELSE [d EXCEPT !.owner = Get(author, "name")]
    ELSE d

\* mutant: defaults.description = pkg.description without the if
ResolveDescription_Unconditional(d, description) ==
    [d EXCEPT !.description = description]

\* lines 179-181
ResolveDescription(d, description) ==
    IF Truthy(description) THEN [d EXCEPT !.description = description] ELSE d

\* pkg.name.replace throws a TypeError: pkg is null, or pkg.name is truthy
\* and has no replace method
NameThrows(pkg) ==
    \/ pkg.t = "null"
    \/ Truthy(Get(pkg, "name")) /\ Get(pkg, "name").t # "string"

\* The file is absent (existsSync false), or the try block throws before any
\* assignment (unreadable file, JSON.parse error, TypeError on pkg.name): the
\* catch ignores it and the fallbacks are returned.  Otherwise the three
\* fields are resolved in order.
getDefaults(file) ==
    IF file.state # "json" THEN FallbackDefaults
    ELSE IF NameThrows(file.value) THEN FallbackDefaults
    ELSE ResolveDescription(
             ResolveOwner(
                 ResolveName(FallbackDefaults, Get(file.value, "name")),
                 Get(file.value, "author")),
             Get(file.value, "description"))

(***************************************************************************)
(* scanSkills: the descriptor of one subdirectory (lines 123-147).         *)
(***************************************************************************)
\* frontmatter.keywords.split(',').map(k => k.trim())
SplitKeywords(s) ==
    LET parts == Split(s, ",")
    IN  [i \in 1..Len(parts) |-> Trim(parts[i])]

\* skill.<key> = frontmatter.<key> under if (frontmatter.<key>)
Optional(v) == IF Truthy(v) THEN v ELSE Undefined

\* `Skill: ${entry.name}`
FallbackSummary(entryName) == StrV(SkillPrefix \o entryName)

\* frontmatter.name || entry.name
SkillName(fm, entryName) == Or(Prop(fm, K_name), StrV(entryName))

\* mutant: the fallback summary names the identifier, not the directory
SkillDescription_OfIdentifier(fm, entryName) ==
    Or(Prop(fm, K_description),
       StrV(SkillPrefix \o Or(Prop(fm, K_name), StrV(entryName)).s))

\* frontmatter.description || `Skill: ${entry.name}`
SkillDescription(fm, entryName) ==
    Or(Prop(fm, K_description), FallbackSummary(entryName))

\* `./${skillsDir}/${entry.name}`
SkillSource(dir, entryName) == StrV(<<".", "/">> \o dir \o <<"/">> \o entryName)

BuildSkill(fm, dir, entryName) ==
    [name |-> SkillName(fm, entryName),
     source |-> SkillSource(dir, entryName),
     description |-> SkillDescription(fm, entryName),
     strict |-> BoolV(FALSE),
     version |-> Optional(Prop(fm, K_version)),
     author |-> IF Truthy(Prop(fm, K_author))
                THEN [t |-> "object", name |-> Prop(fm, K_author)]
                ELSE Undefined,
     keywords |-> IF Truthy(Prop(fm, K_keywords))
                  THEN ArrV(SplitKeywords(fm[K_keywords]))
                  ELSE Undefined,
     category |-> Optional(Prop(fm, K_category))]

(***************************************************************************)
(* generateMarketplace: the manifest (lines 200-217).                      *)
(***************************************************************************)
\* mutant: defaults.<field> || options.<field>
Override_DefaultFirst(option, default) == Or(default, option)

\* options.<field> || defaults.<field>
Override(option, default) == Or(option, default)

\* the email key is set only under if (options.email || defaults.email)
OwnerEmail(option, default) ==
    IF Truthy(Or(option, default)) THEN Or(option, default) ELSE Undefined

BuildMarketplace(opts, d, found) ==
    [name |-> Override(opts.name, d.name),
     owner |-> [name |-> Override(opts.owner, d.owner),
                email |-> OwnerEmail(opts.email, d.email)],
     metadata |-> [description |-> Override(opts.description, d.description),
                   pluginRoot |-> StrV(<<".", "/">> \o opts.skillsDir)],
     plugins |-> found]

(***************************************************************************)
(* writeMarketplace: JSON.stringify(marketplace, null, 2) + '\n'           *)
(* (line 230).  The text is kept as its sequence of members in the order   *)
(* JSON.stringify emits them: one token per scalar member, with the key    *)
(* path, the index of the plugin and of the keyword it belongs to, and     *)
(* brackets around each array; a member whose value is undefined is        *)
(* omitted.                                                                *)
(***************************************************************************)
Token(k, i, j, v) == [k |-> k, i |-> i, j |-> j, v |-> v]

Member(k, i, j, v) == IF v.t = "undefined" THEN <<>> ELSE <<Token(k, i, j, v)>>

Concat(seqs) ==
    LET upTo[n \in 0..Len(seqs)] ==
            IF n = 0 THEN <<>> ELSE upTo[n - 1] \o seqs[n]
    IN  upTo[Len(seqs)]

StringifyKeywords(i, kw) ==
    IF kw.t = "undefined" THEN <<>>
    ELSE <<Token("plugins.keywords", i, 0, [t |-> "["])>>
         \o [j \in 1..Len(kw.a) |->
                Token("plugins.keywords", i, j, StrV(kw.a[j]))]
         \o <<Token("plugins.keywords", i, 0, [t |-> "]"])>>

StringifySkill(i, skill) ==
    Member("plugins.name", i, 0, skill.name)
    \o Member("plugins.source", i, 0, skill.source)
    \o Member("plugins.description", i, 0, skill.description)
    \o Member("plugins.strict", i, 0, skill.strict)
    \o Member("plugins.version", i, 0, skill.version)
    \o (IF skill.author.t = "undefined" THEN <<>>
        ELSE Member("plugins.author.name", i, 0, skill.author.name))
    \o StringifyKeywords(i, skill.keywords)
    \o Member("plugins.category", i, 0, skill.category)

Stringify(m) ==
    Member("name", 0, 0, m.name)
    \o Member("owner.name", 0, 0, m.owner.name)
    \o Member("owner.email", 0, 0, m.owner.email)
    \o Member("metadata.description", 0, 0, m.metadata.description)
    \o Member("metadata.pluginRoot", 0, 0, m.metadata.pluginRoot)
    \o <<Token("plugins", 0, 0, [t |-> "["])>>
    \o Concat([i \in 1..Len(m.plugins) |-> StringifySkill(i, m.plugins[i])])
    \o <<Token("plugins", 0, 0, [t |-> "]"])>>

\* the text written at the output path
FileText(m) == [json |-> Stringify(m), trailer |-> <<NL>>]

(***************************************************************************)
(* State.  The first group is the environment of an invocation: the        *)
(* command line and the files under the working directory.  The second is  *)
(* the state of the running script.                                        *)
(***************************************************************************)
VARIABLES
    argv,           \* the command line: per flag, its value or null
    skillsDirKind,  \* what options.skillsDir resolves to: absent, file, dir
    listing,        \* the entries of the skills directory, in readdir order
    pkgFile,        \* package.json in the working directory
    outDirExists,   \* the directory of the output path exists
    outFile,        \* the file at the output path
    pc,             \* the statement the script is at
    options,        \* parseArgs' result
    defaults,       \* getDefaults' result
    entries,        \* scanSkills: the result of readdirSync
    idx,            \* scanSkills: position of the for loop in entries
    frontmatter,    \* scanSkills: parseFrontmatter's result for the entry
    skills,         \* scanSkills: the descriptors pushed so far
    marketplace,    \* generateMarketplace's result
    exitCode,       \* the exit code of the process, -1 while it runs
    run,            \* number of the invocation
    reads,          \* per subdirectory, the readFileSync calls on its SKILL.md
    writes,         \* the writeFileSync calls on the output path
    outFileBefore,  \* the output file as the invocation found it
    stages          \* the pipeline stages entered by the invocation, in order

env == <<argv, skillsDirKind, listing, pkgFile>>
out == <<outDirExists, outFile>>
scan == <<entries, idx, frontmatter, skills>>
io == <<reads, writes, outFileBefore>>
hist == <<io, stages>>
vars == <<argv, skillsDirKind, listing, pkgFile, outDirExists, outFile, pc,
          options, defaults, entries, idx, frontmatter, skills, marketplace,
          exitCode, run, reads, writes, outFileBefore, stages>>

\* the script's variables before their declarations are reached
NoOptions ==
    [name |-> Null, owner |-> Null, email |-> Null, description |-> Null,
     output |-> <<>>, skillsDir |-> <<>>]
NoDefaults ==
    [name |-> Undefined, owner |-> Undefined, description |-> Undefined,
     email |-> Undefined]
NoMarketplace ==
    [name |-> Undefined,
     owner |-> [name |-> Undefined, email |-> Undefined],
     metadata |-> [description |-> Undefined, pluginRoot |-> Undefined],
     plugins |-> <<>>]

\* the state of a process that has just been started
Started ==
    /\ pc = "parseArgs"
    /\ options = NoOptions
    /\ defaults = NoDefaults
    /\ entries = <<>>
    /\ idx = 0
    /\ frontmatter = EmptyObject
    /\ skills = <<>>
    /\ marketplace = NoMarketplace
    /\ exitCode = -1

\* a stage of the pipeline is entered: getDefaults() (line 192, "Resolver"),
\* scanSkills() (line 193, "Scanner"), the rest of generateMarketplace
\* (lines 195-217, "Assembler"), writeMarketplace() (line 239, "Writer")
Enter(stage) == stages' = Append(stages, stage)

\* process.exit(code), or the exit of the process on an uncaught exception
Exit(code) == pc' = "exit" /\ exitCode' = code

(***************************************************************************)
(* parseArgs (lines 24-73).  The switch stores the value that follows each *)
(* flag; argv holds, per flag, the value the loop ends with.               *)
(***************************************************************************)
\* case '--help': usage, process.exit(0)
ParseArgsHelp ==
    /\ pc = "parseArgs"
    /\ argv.help
    /\ Exit(0)
    /\ UNCHANGED <<env, hist, out, scan, options, defaults, marketplace, run>>

ParseArgs ==
    /\ pc = "parseArgs"
    /\ ~argv.help
    /\ options' =
          [name |-> argv.name, owner |-> argv.owner, email |-> argv.email,
           description |-> argv.description,
           output |-> IF argv.output.t = "string" THEN argv.output.s
                      ELSE DefaultOutput,
           skillsDir |-> IF argv.skillsDir.t = "string" THEN argv.skillsDir.s
                         ELSE DefaultSkillsDir]
    /\ pc' = "getDefaults"
    /\ UNCHANGED <<env, hist, out, scan, defaults, marketplace, exitCode, run>>

(***************************************************************************)
(* generateMarketplace, line 192: const defaults = getDefaults().          *)
(***************************************************************************)
GetDefaults ==
    /\ pc = "getDefaults"
    /\ defaults' = getDefaults(pkgFile)
    /\ pc' = "scanSkills"
    /\ Enter("Resolver")
    /\ UNCHANGED <<env, io, out, scan, options, marketplace, exitCode, run>>

(***************************************************************************)
(* scanSkills (lines 100-152).                                             *)
(***************************************************************************)
\* lines 105-108: the directory does not exist
ScanMissing ==
    /\ pc = "scanSkills"
    /\ skillsDirKind = "absent"
    /\ Exit(1)
    /\ Enter("Scanner")
    /\ UNCHANGED <<env, io, out, scan, options, defaults, marketplace, run>>

\* mutant: a path that is not a directory is listed as an empty directory
ScanNotDirectory_Empty ==
    /\ pc = "scanSkills"
    /\ skillsDirKind = "file"
    /\ skills' = <<>>
    /\ entries' = <<>>
    /\ idx' = 1
    /\ pc' = "scanLoop"
    /\ Enter("Scanner")
    /\ UNCHANGED <<env, io, out, frontmatter, options, defaults, marketplace,
                   exitCode, run>>

\* line 110: readdirSync of a path that is not a directory throws ENOTDIR,
\* which nothing catches
ScanNotDirectory ==
    /\ pc = "scanSkills"
    /\ skillsDirKind = "file"
    /\ Exit(1)
    /\ Enter("Scanner")
    /\ UNCHANGED <<env, io, out, scan, options, defaults, marketplace, run>>

\* mutant: the output file is created, empty, when the scan starts
ScanOpen_CreateOutput ==
    /\ pc = "scanSkills"
    /\ skillsDirKind = "dir"
    /\ skills' = <<>>
    /\ entries' = [i \in 1..Len(listing) |->
                      [name |-> listing[i].name, kind |-> listing[i].kind]]
    /\ idx' = 1
    /\ pc' = "scanLoop"
    /\ Enter("Scanner")
    /\ outFile' = [exists |-> TRUE, data |-> [json |-> <<>>, trailer |-> <<>>]]
    /\ writes' = writes + 1
    /\ UNCHANGED <<env, reads, outFileBefore, outDirExists, frontmatter,
                   options, defaults, marketplace, exitCode, run>>

\* lines 101, 110
ScanOpen ==
    /\ pc = "scanSkills"
    /\ skillsDirKind = "dir"
    /\ skills' = <<>>
    /\ entries' = [i \in 1..Len(listing) |->
                      [name |-> listing[i].name, kind |-> listing[i].kind]]
    /\ idx' = 1
    /\ pc' = "scanLoop"
    /\ Enter("Scanner")
    /\ UNCHANGED <<env, io, out, frontmatter, options, defaults, marketplace,
                   exitCode, run>>

\* the SKILL.md of the subdirectory <name> of the skills directory
SkillMd(name) ==
    listing[CHOOSE i \in 1..Len(listing) : listing[i].name = name].skillMd

InLoop == pc = "scanLoop" /\ idx <= Len(entries)

\* line 113: if (!entry.isDirectory()) continue
ScanSkipFile ==
    /\ InLoop
    /\ entries[idx].kind # "dir"
    /\ idx' = idx + 1
    /\ UNCHANGED <<env, hist, out, entries, frontmatter, skills, pc, options,
                   defaults, marketplace, exitCode, run>>

\* mutant: a subdirectory without SKILL.md aborts the run
ScanSkipNoSkillMd_Abort ==
    /\ InLoop
    /\ entries[idx].kind = "dir"
    /\ ~SkillMd(entries[idx].name).exists
    /\ Exit(1)
    /\ UNCHANGED <<env, hist, out, scan, options, defaults, marketplace, run>>

\* lines 118-121: no SKILL.md, warn and continue
ScanSkipNoSkillMd ==
    /\ InLoop
    /\ entries[idx].kind = "dir"
    /\ ~SkillMd(entries[idx].name).exists
    /\ idx' = idx + 1
    /\ UNCHANGED <<env, hist, out, entries, frontmatter, skills, pc, options,
                   defaults, marketplace, exitCode, run>>

\* mutant: skills.unshift(skill)
PushSkill_Unshift(list, skill) == <<skill>> \o list

\* line 147: skills.push(skill)
PushSkill(list, skill) == Append(list, skill)

\* lines 123-148
ScanAddSkill ==
    /\ InLoop
    /\ entries[idx].kind = "dir"
    /\ SkillMd(entries[idx].name).exists
    /\ LET content == SkillMd(entries[idx].name).content
           fm == parseFrontmatter(content)
       IN  /\ frontmatter' = fm
           /\ skills' = PushSkill(skills,
                                   BuildSkill(fm, options.skillsDir,
                                              entries[idx].name))
    /\ idx' = idx + 1
    /\ reads' = [reads EXCEPT ![entries[idx].name] = @ + 1]
    /\ UNCHANGED <<env, writes, outFileBefore, stages, out, entries, pc,
                   options, defaults, marketplace,
                   exitCode, run>>

\* mutant: the scan result goes to the writer without being assembled
ScanReturn_ToWriter ==
    /\ pc = "scanLoop"
    /\ idx > Len(entries)
    /\ pc' = "write"
    /\ UNCHANGED <<env, hist, out, scan, options, defaults, marketplace,
                   exitCode, run>>

\* line 151: return skills
ScanReturn ==
    /\ pc = "scanLoop"
    /\ idx > Len(entries)
    /\ pc' = "generate"
    /\ UNCHANGED <<env, hist, out, scan, options, defaults, marketplace,
                   exitCode,
                   run>>

(***************************************************************************)
(* generateMarketplace, lines 195-217.                                     *)
(***************************************************************************)
\* mutant: an empty scan result is assembled and written like any other
ExitNoSkills_Proceed ==
    /\ pc = "generate"
    /\ Len(skills) = 0
    /\ marketplace' = BuildMarketplace(options, defaults, skills)
    /\ pc' = "write"
    /\ Enter("Assembler")
    /\ UNCHANGED <<env, io, out, scan, options, defaults, exitCode, run>>

\* lines 195-198
ExitNoSkills ==
    /\ pc = "generate"
    /\ Len(skills) = 0
    /\ Exit(1)
    /\ Enter("Assembler")
    /\ UNCHANGED <<env, io, out, scan, options, defaults, marketplace, run>>

\* lines 200-217
Assemble ==
    /\ pc = "generate"
    /\ Len(skills) # 0
    /\ marketplace' = BuildMarketplace(options, defaults, skills)
    /\ pc' = "write"
    /\ Enter("Assembler")
    /\ UNCHANGED <<env, io, out, scan, options, defaults, exitCode, run>>

(***************************************************************************)
(* writeMarketplace (lines 221-233), then main returns and node exits 0.   *)
(***************************************************************************)
\* lines 226-228: mkdirSync(dir, { recursive: true }) when dir is missing
MakeDir(exists) == IF ~exists THEN TRUE ELSE exists

\* mutant: the text is appended to what the file holds (appendFileSync)
WriteFile_Append(old, text) ==
    [exists |-> TRUE,
     data |-> IF old.exists
              THEN [json |-> old.data.json \o text.json,
                    trailer |-> text.trailer]
              ELSE text]

\* line 230: writeFileSync replaces whatever the file held
WriteFile(old, text) == [exists |-> TRUE, data |-> text]

WriteMarketplace ==
    /\ pc = "write"
    /\ outDirExists' = MakeDir(outDirExists)
    /\ outFile' = WriteFile(outFile, FileText(marketplace))
    /\ pc' = "done"
    /\ exitCode' = 0
    /\ Enter("Writer")
    /\ writes' = writes + 1
    /\ UNCHANGED <<env, reads, outFileBefore, scan, options, defaults,
                   marketplace, run>>

(***************************************************************************)
(* The script is invoked again, with the same command line, on the files   *)
(* the previous invocation left.                                           *)
(***************************************************************************)
Rerun ==
    /\ pc \in {"done", "exit"}
    /\ run < MaxRuns
    /\ run' = run + 1
    /\ pc' = "parseArgs"
    /\ options' = NoOptions
    /\ defaults' = NoDefaults
    /\ entries' = <<>>
    /\ idx' = 0
    /\ frontmatter' = EmptyObject
    /\ skills' = <<>>
    /\ marketplace' = NoMarketplace
    /\ exitCode' = -1
    /\ reads' = [n \in DOMAIN reads |-> 0]
    /\ writes' = 0
    /\ outFileBefore' = outFile
    /\ stages' = <<>>
    /\ UNCHANGED <<env, out>>

Next ==
    \/ ParseArgsHelp
    \/ ParseArgs
    \/ GetDefaults
    \/ ScanMissing
    \/ ScanNotDirectory
    \/ ScanOpen
    \/ ScanSkipFile
    \/ ScanSkipNoSkillMd
    \/ ScanAddSkill
    \/ ScanReturn
    \/ ExitNoSkills
    \/ Assemble
    \/ WriteMarketplace
    \/ Rerun

(***************************************************************************)
(* The environments the script is run in.                                  *)
(***************************************************************************)
Min(a, b) == IF a < b THEN a ELSE b

\* all strings over chars of length at most n
Strings(chars, n) == UNION { [1..k -> chars] : k \in 0..n }

\* SKILL.md files: without frontmatter, with a name only, with a description
\* only, with every key (and name twice), with empty name and description
DocNoHeader == <<"#", " ", "t">>
DocNameOnly == <<"-", "-", "-", NL, "n", "a", "m", "e", ":", " ", "n", NL, "-", "-", "-", NL>>
DocDescOnly == <<"-", "-", "-", NL, "d", "e", "s", "c", "r", "i", "p", "t", "i", "o", "n", ":", " ", "d", NL, "-", "-", "-">>
DocFull == <<"-", "-", "-", NL, "n", "a", "m", "e", ":", " ", "n", NL, "d", "e", "s", "c", "r", "i", "p", "t", "i", "o", "n", ":", " ", "d", NL, "v", "e", "r", "s", "i", "o", "n", ":", " ", "1", NL, "a", "u", "t", "h", "o", "r", ":", " ", "u", NL, "k", "e", "y", "w", "o", "r", "d", "s", ":", " ", "p", ",", " ", "q", NL, "c", "a", "t", "e", "g", "o", "r", "y", ":", " ", "c", NL, "n", "a", "m", "e", ":", " ", "m", NL, "-", "-", "-", NL, "#", " ", "t">>
DocEmptyName == <<"-", "-", "-", NL, "n", "a", "m", "e", ":", NL, "d", "e", "s", "c", "r", "i", "p", "t", "i", "o", "n", ":", NL, "-", "-", "-">>
\* the files the enumerated listings draw from
Docs == {DocNoHeader, DocNameOnly, DocDescOnly, DocEmptyName}

NoSkillMd == [exists |-> FALSE, content |-> <<>>]
SkillMdOf(content) == [exists |-> TRUE, content |-> content]

NamePool == << <<"b">>, <<"a">>, <<"c">> >>
DirNames == { NamePool[i] : i \in 1..Min(MaxEntries, Len(NamePool)) }

FileEntry(name) == [name |-> name, kind |-> "file", skillMd |-> NoSkillMd]
DirEntry(name, md) == [name |-> name, kind |-> "dir", skillMd |-> md]

EntriesOver(docs) ==
    { FileEntry(n) : n \in DirNames }
    \cup { DirEntry(n, NoSkillMd) : n \in DirNames }
    \cup { DirEntry(n, SkillMdOf(c)) : n \in DirNames, c \in docs }

\* the listings readdir can return: no name twice, any order
ListingsOver(docs) ==
    UNION { { l \in [1..k -> EntriesOver(docs)] :
                \A i, j \in 1..k : i # j => l[i].name # l[j].name } :
            k \in 0..MaxEntries }

NoFile == [exists |-> FALSE, data |-> [json |-> <<>>, trailer |-> <<>>]]
\* a file an earlier, different catalog left at the output path
OldFile ==
    [exists |-> TRUE,
     data |-> [json |-> <<Token("name", 0, 0, StrV(<<"o", "l", "d">>))>>,
               trailer |-> <<NL>>]]
OutStates ==
    { [dir |-> FALSE, file |-> NoFile], [dir |-> TRUE, file |-> NoFile],
      [dir |-> TRUE, file |-> OldFile] }

ArgvOf(help, name, owner, email, description, skillsDir) ==
    [help |-> help, name |-> name, owner |-> owner, email |-> email,
     description |-> description, output |-> Null, skillsDir |-> skillsDir]
ArgvNone == ArgvOf(FALSE, Null, Null, Null, Null, Null)
ArgvHelp == ArgvOf(TRUE, Null, Null, Null, Null, Null)
ArgvSome ==
    ArgvOf(FALSE, StrV(<<"m">>), Null, StrV(<<"e">>), Null, StrV(<<"s">>))

PkgAbsent == [state |-> "absent", value |-> Undefined]
PkgUnreadable == [state |-> "unreadable", value |-> Undefined]
PkgInvalid == [state |-> "invalid", value |-> Undefined]
PkgJson(v) == [state |-> "json", value |-> v]
PkgObject(name, author, description) ==
    [t |-> "object", name |-> name, author |-> author,
     description |-> description]
AuthorObject(name, email) == [t |-> "object", name |-> name, email |-> email]
PkgFull ==
    PkgJson(PkgObject(StrV(<<"M", "y">>),
                      AuthorObject(StrV(<<"J">>), StrV(<<"j", "@", "x">>)),
                      StrV(<<"D">>)))

Scenario(a, kind, l, pkg, o) ==
    [argv |-> a, kind |-> kind, listing |-> l, pkg |-> pkg, out |-> o]

\* one environment per path through the script
CoverageScenarios ==
    LET o == [dir |-> FALSE, file |-> NoFile]
    IN  { Scenario(ArgvHelp, "dir", <<>>, PkgAbsent, o),
          Scenario(ArgvNone, "absent", <<>>, PkgAbsent, o),
          Scenario(ArgvNone, "file", <<>>, PkgAbsent, o),
          Scenario(ArgvNone, "dir", <<>>, PkgAbsent, o),
          Scenario(ArgvNone, "dir",
                   <<FileEntry(<<"f">>), DirEntry(<<"e">>, NoSkillMd),
                     DirEntry(<<"d">>, SkillMdOf(DocFull))>>,
                   PkgFull, o) }

\* every listing of at most MaxEntries entries, with a few command lines
\* and package.json files
TreeScenarios ==
    { Scenario(c.argv, "dir", l, c.pkg, o) :
        c \in { [argv |-> ArgvNone, pkg |-> PkgAbsent],
                [argv |-> ArgvSome, pkg |-> PkgFull] },
        l \in ListingsOver(Docs),
        o \in { [dir |-> FALSE, file |-> NoFile],
                [dir |-> TRUE, file |-> OldFile] } }
    \cup { Scenario(a, kind, <<>>, PkgAbsent, o) :
             a \in {ArgvNone, ArgvHelp}, kind \in {"absent", "file"},
             o \in OutStates }

InitOf(scenarios) ==
    \E sc \in scenarios :
        /\ argv = sc.argv
        /\ skillsDirKind = sc.kind
        /\ listing = sc.listing
        /\ pkgFile = sc.pkg
        /\ outDirExists = sc.out.dir
        /\ outFile = sc.out.file
        /\ run = 1
        /\ reads = [n \in { sc.listing[i].name : i \in 1..Len(sc.listing) }
                       |-> 0]
        /\ writes = 0
        /\ outFileBefore = sc.out.file
        /\ stages = <<>>
        /\ Started

Init == InitOf(CoverageScenarios \cup TreeScenarios)

Spec == Init /\ [][Next]_vars

(***************************************************************************)
(* parseFrontmatter on every SKILL.md whose frontmatter body has at most   *)
(* MaxBody characters among a letter, the colon, the space and the line    *)
(* break, and on short files without frontmatter.                          *)
(***************************************************************************)
BodyChars == {"k", ":", " ", NL}

Wrap(body) == Dashes \o <<NL>> \o body \o <<NL>> \o Dashes

ParseContents ==
    { Wrap(b) : b \in Strings(BodyChars, MaxBody) }
    \cup Strings(BodyChars, 2)

ParseScenarios ==
    { Scenario(ArgvNone, "dir", <<DirEntry(<<"d">>, SkillMdOf(c))>>,
               PkgAbsent, [dir |-> FALSE, file |-> NoFile]) :
        c \in ParseContents }

SpecParse == InitOf(CoverageScenarios \cup ParseScenarios) /\ [][Next]_vars

(***************************************************************************)
(* The manifest fields under every combination of command-line overrides   *)
(* (absent, empty, non-empty) and three package.json files.                *)
(***************************************************************************)
OptValues(s) == {Null, StrV(<<>>), StrV(s)}

\* package.json with a string author and nothing else
PkgAuthorOnly == PkgJson(PkgObject(Undefined, StrV(<<"K">>), Undefined))

OneSkill == <<DirEntry(<<"d">>, SkillMdOf(DocNameOnly))>>

OverrideScenarios ==
    { Scenario(ArgvOf(FALSE, n, o, e, d, Null), "dir", OneSkill, pkg,
               [dir |-> FALSE, file |-> NoFile]) :
        n \in OptValues(<<"m">>), o \in OptValues(<<"o">>),
        e \in OptValues(<<"e">>), d \in OptValues(<<"t">>),
        pkg \in {PkgAbsent, PkgFull, PkgAuthorOnly} }

SpecOverrides ==
    InitOf(CoverageScenarios \cup OverrideScenarios) /\ [][Next]_vars

(***************************************************************************)
(* getDefaults on package.json files of every shape: absent, unreadable,   *)
(* not JSON, null, a primitive, and objects whose name, author and         *)
(* description are absent, empty, strings or of another type.              *)
(***************************************************************************)
PkgNames == {Undefined, StrV(<<>>), StrV(<<"M", "y">>), NumV}
PkgAuthors ==
    {Undefined, Null, StrV(<<>>), StrV(<<"J">>), NumV}
    \cup { AuthorObject(n, e) :
             n \in {Undefined, StrV(<<>>), StrV(<<"J">>), NumV},
             e \in {Undefined, StrV(<<>>), StrV(<<"j", "@", "x">>)} }
PkgDescriptions == {Undefined, StrV(<<"D">>)}

PkgFiles ==
    {PkgAbsent, PkgUnreadable, PkgInvalid, PkgJson(Null), PkgJson(NumV),
     PkgJson(StrV(<<"s">>))}
    \cup { PkgJson(PkgObject(n, a, d)) :
             n \in PkgNames, a \in PkgAuthors, d \in PkgDescriptions }

DefaultsScenarios ==
    { Scenario(ArgvNone, "dir", OneSkill, pkg,
               [dir |-> FALSE, file |-> NoFile]) : pkg \in PkgFiles }

SpecDefaults ==
    InitOf(CoverageScenarios \cup DefaultsScenarios) /\ [][Next]_vars

(***************************************************************************)
(* The name sanitization on every package.json name of at most MaxLen      *)
(* characters among a lower-case letter, an upper-case letter, a digit,    *)
(* the hyphen, a punctuation mark and the space, and on "My App!".         *)
(***************************************************************************)
NameChars == {"a", "Z", "0", "-", "!", " "}

MyApp == <<"M", "y", " ", "A", "p", "p", "!">>

SanitizeScenarios ==
    { Scenario(ArgvNone, "dir", OneSkill,
               PkgJson(PkgObject(StrV(s), Undefined, Undefined)),
               [dir |-> FALSE, file |-> NoFile]) :
        s \in Strings(NameChars, MaxLen) \cup {MyApp} }

SpecSanitize ==
    InitOf(CoverageScenarios \cup SanitizeScenarios) /\ [][Next]_vars

(***************************************************************************)
(* Properties.                                                             *)
(***************************************************************************)
\* positions in the listing of the subdirectories that contain a SKILL.md
ValidDirs ==
    { i \in 1..Len(listing) :
        listing[i].kind = "dir" /\ listing[i].skillMd.exists }

\* the source path the descriptor of the subdirectory at position i carries
SourceOf(i) == StrV(<<".", "/">> \o options.skillsDir \o <<"/">> \o listing[i].name)

\* the manifest has been assembled
Assembled == pc \in {"write", "done"}

\* the tokens of the written file that belong to key k
TokensOf(k) ==
    { n \in 1..Len(outFile.data.json) : outFile.data.json[n].k = k }

\* the statement the script is at can be executed: one of the branches of
\* the code at pc applies
CanStep ==
    \/ pc \in {"parseArgs", "getDefaults", "generate", "write"}
    \/ pc = "scanSkills" /\ skillsDirKind \in {"absent", "file", "dir"}
    \/ pc = "scanLoop" /\ idx \in 1..(Len(entries) + 1)
          /\ (idx <= Len(entries) => entries[idx].kind \in {"file", "dir"})

\* C1: when the skills directory holds at least one subdirectory with a
\* SKILL.md, the run never exits fatally and is never stuck before it is
\* done, and the manifest it writes has exactly one plugin per such
\* subdirectory: as many plugins as subdirectories with a SKILL.md, one for
\* each of them, none for a plain file or a subdirectory without SKILL.md.
C1_OnePluginPerSkillDir ==
    (skillsDirKind = "dir" /\ ValidDirs # {} /\ ~argv.help) =>
        /\ pc # "exit"
        /\ pc # "done" => CanStep
        /\ Assembled =>
             /\ Len(marketplace.plugins) = Cardinality(ValidDirs)
             /\ { marketplace.plugins[k].source :
                    k \in 1..Len(marketplace.plugins) }
                  = { SourceOf(i) : i \in ValidDirs }
        /\ pc = "done" =>
             /\ exitCode = 0
             /\ outFile.exists
             /\ Cardinality(TokensOf("plugins.source"))
                  = Cardinality(ValidDirs)
             /\ { outFile.data.json[n].v : n \in TokensOf("plugins.source") }
                  = { SourceOf(i) : i \in ValidDirs }

\* C1 witness: a finished run over a listing with one skill and one
\* subdirectory that has no SKILL.md
C1_Witness ==
    /\ pc = "done"
    /\ Len(listing) = 2
    /\ Cardinality(ValidDirs) = 1
    /\ \E i \in 1..Len(listing) :
          listing[i].kind = "dir" /\ ~listing[i].skillMd.exists

\* C2: when the skills directory exists and no subdirectory of it holds a
\* SKILL.md, the scan returns no descriptor and the next step is the fatal
\* exit with code 1; the writer is the only step that changes the output
\* directory or file, so nothing is created or changed in such a run; and
\* whenever the writer runs, the manifest has at least one plugin.
C2_EmptyScanIsFatal ==
    [][ /\ (pc = "generate" /\ skillsDirKind = "dir" /\ ValidDirs = {})
             => (skills = <<>> /\ pc' = "exit" /\ exitCode' = 1)
        /\ (skillsDirKind = "dir" /\ ValidDirs = {})
             => (pc' # "write" /\ UNCHANGED out)
        /\ (outFile' # outFile \/ outDirExists' # outDirExists)
             => (pc = "write" /\ marketplace.plugins # <<>>
                 /\ TokensOf("plugins.source")' # {}) ]_vars

\* C2 witness: the run over a directory of two entries, none with a
\* SKILL.md, has exited with code 1 and the old file is still there
C2_Witness ==
    /\ pc = "exit"
    /\ exitCode = 1
    /\ skillsDirKind = "dir"
    /\ Len(listing) = 2
    /\ ValidDirs = {}
    /\ skills = <<>>
    /\ outFile = OldFile

\* C3: when the skills directory does not exist or is not a directory, the
\* scanner exits with a non-zero code at its first statement, no descriptor
\* is ever built and the output directory and file are never touched.
C3_MissingSkillsDirIsFatal ==
    [][ skillsDirKind # "dir" =>
          /\ pc = "scanSkills" => (pc' = "exit" /\ exitCode' > 0)
          /\ skills = <<>> /\ skills' = <<>>
          /\ frontmatter' = EmptyObject
          /\ pc' \notin {"scanLoop", "generate", "write", "done"}
          /\ UNCHANGED out ]_vars

\* C3 witness: the run has exited with code 1 on a skills path that is a
\* plain file, and the file at the output path is the old one
C3_Witness ==
    /\ pc = "exit"
    /\ exitCode = 1
    /\ skillsDirKind = "file"
    /\ outFile = OldFile

\* C5: the second invocation, with the same command line on the same
\* tree, writes exactly the content the first invocation left at the output
\* path: its write leaves the file and the directory unchanged.
C5_SecondRunWritesSameBytes ==
    [][ (run > 1 /\ pc = "write") =>
          (pc' = "done" /\ outFile' = outFile /\ outFile.exists
           /\ outFile'.data = FileText(marketplace)
           /\ UNCHANGED outDirExists) ]_vars

\* C5 witness: the second invocation has written the manifest of two skills
C5_Witness ==
    /\ run = 2
    /\ pc = "done"
    /\ Len(marketplace.plugins) = 2

\* the position in plugins of the descriptor of the subdirectory at listing
\* position i
PluginOf(i) ==
    CHOOSE k \in 1..Len(marketplace.plugins) :
        marketplace.plugins[k].source = SourceOf(i)

\* C6: plugins is in listing order: every subdirectory with a SKILL.md has
\* its descriptor in plugins, and A's descriptor precedes B's exactly when A
\* precedes B in the listing; and a scan step only appends: the descriptors
\* already in skills stay where and what they are.
C6_ListingOrderPreserved ==
    /\ [](Assembled =>
            /\ \A i \in ValidDirs :
                  \E k \in 1..Len(marketplace.plugins) :
                     marketplace.plugins[k].source = SourceOf(i)
            /\ \A i, j \in ValidDirs :
                  (PluginOf(i) < PluginOf(j)) <=> (i < j))
    /\ [][ pc = "scanLoop" =>
             /\ Len(skills') >= Len(skills)
             /\ SubSeq(skills', 1, Len(skills)) = skills ]_vars

\* C6 witness: a finished run over the listing <<b, a>>, two skills whose
\* names are not in sorted order
C6_Witness ==
    /\ pc = "done"
    /\ Len(listing) = 2
    /\ ValidDirs = {1, 2}
    /\ listing[1].name = <<"b">>
    /\ listing[2].name = <<"a">>
    /\ PluginOf(1) = 1
    /\ PluginOf(2) = 2

\* the SKILL.md most recently read by the scan loop, as a listing position
LastRead ==
    CHOOSE i \in ValidDirs :
        i < idx /\ \A j \in ValidDirs : j < idx => j <= i

\* frontmatter holds the result of parsing the SKILL.md at LastRead
HasParsed ==
    /\ pc \in {"scanLoop", "generate", "write", "done"}
    /\ \E i \in ValidDirs : i < idx

\* a file that is exactly ---, a body without dashes, ---
IsWrapped(c) ==
    /\ Len(c) >= 8
    /\ SubSeq(c, 1, 4) = <<"-", "-", "-", NL>>
    /\ SubSeq(c, Len(c) - 3, Len(c)) = <<NL, "-", "-", "-">>
    /\ \A i \in 5..(Len(c) - 4) : c[i] # "-"

\* the lines of the header region of such a file
RegionLines(c) == Split(SubSeq(c, 5, Len(c) - 4), NL)

\* 1-based position of the first colon of a line that has one
FirstColon(line) ==
    CHOOSE p \in 1..Len(line) :
        line[p] = ":" /\ \A q \in 1..(p - 1) : line[q] # ":"

HasColon(line) == \E p \in 1..Len(line) : line[p] = ":"

KeyOf(line) == Trim(SubSeq(line, 1, FirstColon(line) - 1))
ValueOf(line) == Trim(SubSeq(line, FirstColon(line) + 1, Len(line)))

\* fm is the mapping in which exactly the lines at the positions in pairs
\* contribute (key, value), the last line of a key giving its value
IsMappingOf(fm, lines, pairs) ==
    /\ DOMAIN fm = { KeyOf(lines[n]) : n \in pairs }
    /\ \A n \in pairs :
          (\A m \in pairs : m > n => KeyOf(lines[m]) # KeyOf(lines[n]))
             => fm[KeyOf(lines[n])] = ValueOf(lines[n])

\* C7 as stated: every line with a colon contributes a pair.
C7_EveryColonLineContributes ==
    (HasParsed /\ IsWrapped(listing[LastRead].skillMd.content)) =>
        LET lines == RegionLines(listing[LastRead].skillMd.content)
        IN  IsMappingOf(frontmatter, lines,
                        { n \in 1..Len(lines) : HasColon(lines[n]) })

\* C7, amended: a line contributes a pair exactly when it has a colon that
\* is not its first character (a line without a colon, and a line that
\* starts with its first colon, are ignored); the pair is (trimmed text
\* before the first colon, trimmed text after it), and the last line of a
\* key gives its value.  A file without a header region yields the empty
\* mapping.
C7_ColonLinesContribute ==
    HasParsed =>
        LET c == listing[LastRead].skillMd.content
            lines == RegionLines(c)
        IN  /\ IsWrapped(c) =>
                 IsMappingOf(frontmatter, lines,
                             { n \in 1..Len(lines) :
                                 HasColon(lines[n]) /\ lines[n][1] # ":" })
            /\ (Len(c) < 4 \/ SubSeq(c, 1, 4) # <<"-", "-", "-", NL>>) =>
                 frontmatter = EmptyObject

\* C7 witness: the header region "k:\nk:k" has been parsed: the key k
\* occurs on two lines with different values
C7_Witness ==
    /\ HasParsed
    /\ listing[LastRead].skillMd.content
         = Wrap(<<"k", ":", NL, "k", ":", "k">>)
    /\ frontmatter[<<"k">>] = <<"k">>

\* the name and the description a SKILL.md of Docs carries in its header:
\* <<>> when the key is absent, <<value>> when it is there
MetaName(doc) ==
    CASE doc = DocNameOnly -> << <<"n">> >>
      [] doc = DocFull -> << <<"m">> >>
      [] doc = DocEmptyName -> << <<>> >>
      [] OTHER -> <<>>
MetaDescription(doc) ==
    CASE doc = DocDescOnly -> << <<"d">> >>
      [] doc = DocFull -> << <<"d">> >>
      [] doc = DocEmptyName -> << <<>> >>
      [] OTHER -> <<>>

\* C8 as stated: the identifier is the metadata name if present, else the
\* subdirectory's name; the summary is the metadata description if
\* present, else "Skill: " followed by the descriptor's identifier.
C8_SummaryFallsBackToIdentifier ==
    Assembled =>
        \A i \in ValidDirs :
            LET p == marketplace.plugins[PluginOf(i)]
                doc == listing[i].skillMd.content
            IN  /\ p.name = IF MetaName(doc) # <<>>
                            THEN StrV(MetaName(doc)[1])
                            ELSE StrV(listing[i].name)
                /\ p.description =
                       IF MetaDescription(doc) # <<>>
                       THEN StrV(MetaDescription(doc)[1])
                       ELSE StrV(<<"S", "k", "i", "l", "l", ":", " ">>
                                 \o p.name.s)

\* a header value that is there and not empty
NonEmpty(meta) == meta # <<>> /\ meta[1] # <<>>

\* C8, amended: the identifier is the metadata name if present and not
\* empty, else the subdirectory's name, hence never empty; the summary is
\* the metadata description if present and not empty, else "Skill: "
\* followed by the subdirectory's name (not by the identifier).
C8_SummaryFallsBackToDirName ==
    Assembled =>
        \A i \in ValidDirs :
            LET p == marketplace.plugins[PluginOf(i)]
                doc == listing[i].skillMd.content
            IN  /\ p.name = IF NonEmpty(MetaName(doc))
                            THEN StrV(MetaName(doc)[1])
                            ELSE StrV(listing[i].name)
                /\ p.name.s # <<>>
                /\ p.description =
                       IF NonEmpty(MetaDescription(doc))
                       THEN StrV(MetaDescription(doc)[1])
                       ELSE StrV(<<"S", "k", "i", "l", "l", ":", " ">>
                                 \o listing[i].name)

\* C8 witness: the manifest holds the descriptor of subdirectory b whose
\* SKILL.md names it n and has no description, and the descriptor of
\* subdirectory a whose SKILL.md has no header
C8_Witness ==
    /\ pc = "done"
    /\ Len(listing) = 2
    /\ listing[1] = DirEntry(<<"b">>, SkillMdOf(DocNameOnly))
    /\ listing[2] = DirEntry(<<"a">>, SkillMdOf(DocNoHeader))
    /\ marketplace.plugins[1].name = StrV(<<"n">>)
    /\ marketplace.plugins[2].name = StrV(<<"a">>)

\* what package.json gives for each manifest field in the scenarios of
\* SpecOverrides: <<>> when it gives nothing, <<value>> otherwise
PkgGives(field) ==
    IF pkgFile = PkgFull
    THEN CASE field = "name" -> << StrV(<<"m", "y">>) >>
           [] field = "owner" -> << StrV(<<"J">>) >>
           [] field = "email" -> << StrV(<<"j", "@", "x">>) >>
           [] field = "description" -> << StrV(<<"D">>) >>
    ELSE IF pkgFile = PkgAuthorOnly /\ field = "owner"
    THEN << StrV(<<"K">>) >>
    ELSE <<>>

\* the fallback constant of a field, <<>> for the email, which has none
FallbackOf(field) ==
    CASE field = "name" -> << StrV(FallbackName) >>
      [] field = "owner" -> << StrV(FallbackOwner) >>
      [] field = "description" -> << StrV(FallbackDescription) >>
      [] field = "email" -> <<>>

\* override first, package.json second, fallback constant third; <<>> when
\* none of the three gives a value
Resolved(supplied, field) ==
    IF supplied THEN << argv[field] >>
    ELSE IF PkgGives(field) # <<>> THEN PkgGives(field)
    ELSE FallbackOf(field)

\* the manifest's fields are those Resolved gives, where supplied is the
\* set of the fields the command line overrides
PrecedenceHolds(supplied) ==
    /\ marketplace.name = Resolved("name" \in supplied, "name")[1]
    /\ marketplace.owner.name = Resolved("owner" \in supplied, "owner")[1]
    /\ marketplace.metadata.description
         = Resolved("description" \in supplied, "description")[1]
    /\ LET email == Resolved("email" \in supplied, "email")
       IN  /\ marketplace.owner.email
                = IF email = <<>> THEN Undefined ELSE email[1]
           /\ pc = "done" =>
                /\ (TokensOf("owner.email") # {}) <=> (email # <<>>)
                /\ \A n \in TokensOf("owner.email") :
                      outFile.data.json[n].v = email[1]
                /\ \A n \in TokensOf("name") :
                      outFile.data.json[n].v
                        = Resolved("name" \in supplied, "name")[1]

OverridableFields == {"name", "owner", "email", "description"}

\* the flags given on the command line
Given == { f \in OverridableFields : argv[f] # Null }

\* the flags given with a value that is not the empty string
GivenNonEmpty ==
    { f \in OverridableFields : argv[f] # Null /\ argv[f].s # <<>> }

\* C4 as stated: each field is the override whenever one was supplied.
C4_OverrideWheneverSupplied == Assembled => PrecedenceHolds(Given)

\* C4, amended: each of name, owner.name, metadata.description and
\* owner.email is the command-line override whenever a non-empty one was
\* supplied (an empty override counts as none), otherwise the value from
\* package.json when there is one, otherwise the fallback constant; the
\* email key is in the manifest exactly when a non-empty override or
\* package.json gave an email.
C4_NonEmptyOverrideFirst == Assembled => PrecedenceHolds(GivenNonEmpty)

\* C4 witness: a finished run with package.json giving every field, the
\* name overridden, the owner overridden by the empty string and no
\* override of the description and the email
C4_Witness ==
    /\ pc = "done"
    /\ pkgFile = PkgFull
    /\ argv.name = StrV(<<"m">>)
    /\ argv.owner = StrV(<<>>)
    /\ argv.description = Null
    /\ argv.email = Null
    /\ marketplace.name = StrV(<<"m">>)
    /\ marketplace.owner.name = StrV(<<"J">>)

\* getDefaults has returned
DefaultsResolved == pc \notin {"parseArgs", "getDefaults", "exit"}

\* package.json parsed to an object
PkgIsObject == pkgFile.state = "json" /\ pkgFile.value.t = "object"

OwnerIs(name, email) == defaults.owner = name /\ defaults.email = email

Present(v) == v.t \notin {"undefined", "null"} /\ v # StrV(<<>>)

SanitizedChar(c) ==
    CASE c = "a" -> "a" [] c = "Z" -> "z" [] c = "0" -> "0" [] c = "-" -> "-"
      [] c = "!" -> "-" [] c = " " -> "-" [] c = "M" -> "m" [] c = "y" -> "y"
      [] c = "A" -> "a" [] c = "p" -> "p"

\* C10: the default name derived from a non-empty package.json name has
\* the length of that name, only characters of [a-z0-9-], at each position
\* the lower-cased letter, the digit or hyphen itself, or "-" for any other
\* character; "My App!" gives "my-app-"; and sanitizing it again changes
\* nothing.
C10_NameSanitized ==
    (DefaultsResolved /\ PkgIsObject /\ pkgFile.value.name.t = "string"
     /\ pkgFile.value.name.s # <<>>) =>
        LET s == pkgFile.value.name.s
            r == defaults.name.s
        IN  /\ defaults.name.t = "string"
            /\ Len(r) = Len(s)
            /\ \A i \in 1..Len(s) :
                  /\ r[i] \in Range(LowerLetters) \cup Digits \cup {"-"}
                  /\ r[i] = SanitizedChar(s[i])
            /\ s = MyApp => r = <<"m", "y", "-", "a", "p", "p", "-">>
            /\ Sanitize(r) = r

\* C10 witness: the name "My App!" has been sanitized to "my-app-"
C10_Witness ==
    /\ pc = "done"
    /\ PkgIsObject
    /\ pkgFile.value.name = StrV(MyApp)
    /\ defaults.name = StrV(<<"m", "y", "-", "a", "p", "p", "-">>)
    /\ marketplace.name = defaults.name


\* the three defaults that have a fallback constant
DefaultFields == {"name", "owner", "description"}

\* the field of package.json a default is taken from (owner: author, or the
\* name of an author object); Undefined when package.json is absent,
\* unreadable, not JSON or not an object, or has no such field
PkgField(field) ==
    IF ~PkgIsObject THEN Undefined
    ELSE CASE field = "name" -> pkgFile.value.name
           [] field = "description" -> pkgFile.value.description
           [] field = "owner" ->
                IF pkgFile.value.author.t = "object"
                THEN pkgFile.value.author.name
                ELSE pkgFile.value.author

\* the field is missing from package.json
Missing(field) == PkgField(field).t \in {"undefined", "null"}

\* the values package.json can give a default: its field, the name after
\* sanitization
DerivedFrom(field) ==
    IF Missing(field) THEN {}
    ELSE IF field = "name"
    THEN IF PkgField(field).t = "string"
         THEN { StrV([i \in 1..Len(PkgField(field).s) |->
                        SanitizedChar(PkgField(field).s[i])]) }
         ELSE {}
    ELSE { PkgField(field) }

\* C11: getDefaults never ends the run: whatever package.json is (absent,
\* unreadable, not JSON, null, a primitive, an object with fields of any
\* type), the step after it is the scan, with no exit code set; and in the
\* record it returned each of name, owner and description is either the
\* value derived from package.json or its fallback constant, and is the
\* fallback constant whenever package.json does not have the field,
\* whatever the other fields are.
C11_DefaultsNeverAbort ==
    /\ [](DefaultsResolved =>
            \A f \in DefaultFields :
                /\ defaults[f] \in DerivedFrom(f) \cup {FallbackOf(f)[1]}
                /\ Missing(f) => defaults[f] = FallbackOf(f)[1])
    /\ [][pc = "getDefaults" => (pc' = "scanSkills" /\ exitCode' = -1)]_vars

\* C11 witness: a run has finished on a package.json that has a description
\* and neither name nor author: the description is taken, the name and the
\* owner are the fallback constants
C11_Witness ==
    /\ pc = "done"
    /\ pkgFile = PkgJson(PkgObject(Undefined, Undefined, StrV(<<"D">>)))
    /\ defaults.description = StrV(<<"D">>)
    /\ defaults.name = StrV(FallbackName)
    /\ defaults.owner = StrV(FallbackOwner)


\* the text of the manifest of the whole scan of this invocation
ManifestText == FileText(BuildMarketplace(options, defaults, skills))

\* the scan, the default resolution and the assembly of this invocation
\* have completed
ReadyToWrite ==
    /\ defaults # NoDefaults
    /\ idx > Len(entries)
    /\ Len(skills) = Cardinality(ValidDirs)
    /\ marketplace = BuildMarketplace(options, defaults, skills)

\* C12: in every invocation the output path is written at most once and the
\* SKILL.md of each subdirectory is read at most once; the file at the
\* output path changes only by that write, which happens when the scan, the
\* default resolution and the assembly have completed; so the file is at
\* every moment either what the invocation found or the text of the whole
\* manifest; an invocation that ends with a fatal exit has not written, and
\* one that completes has written exactly once.
C12_WrittenOnceWhole ==
    /\ [](/\ writes <= 1
          /\ \A n \in DOMAIN reads : reads[n] <= 1
          /\ \/ outFile = outFileBefore /\ writes = 0
             \/ outFile = [exists |-> TRUE, data |-> ManifestText]
          /\ pc = "exit" => (writes = 0 /\ outFile = outFileBefore)
          /\ pc = "done" =>
                (writes = 1
                 /\ outFile = [exists |-> TRUE, data |-> ManifestText]))
    /\ [][run' = run =>
            /\ outFile' # outFile => writes' = writes + 1
            /\ writes' # writes => (pc = "write" /\ ReadyToWrite)]_vars

\* C12 witness: an invocation that found an older file at the output path
\* has read the SKILL.md of two subdirectories once each and has replaced
\* the file, in one write, by the manifest of the two skills
C12_Witness ==
    /\ pc = "done"
    /\ outFileBefore = OldFile
    /\ outFile # OldFile
    /\ writes = 1
    /\ Len(skills) = 2
    /\ \A n \in DOMAIN reads : reads[n] = 1


\* s is an initial part of t
IsPrefix(s, t) == Len(s) <= Len(t) /\ s = SubSeq(t, 1, Len(s))

\* the order the claim states, and the order of lines 192-193 and 238-239
ScannerFirst == <<"Scanner", "Resolver", "Assembler", "Writer">>
ResolverFirst == <<"Resolver", "Scanner", "Assembler", "Writer">>

\* C13 as stated: the stages are entered in the order Scanner, Default
\* Resolver, Manifest Assembler, Manifest Writer.
C13_ScannerBeforeResolver == IsPrefix(stages, ScannerFirst)

\* the stage entered last has finished: the resolver has returned the
\* defaults, the scanner has gone through the whole listing, the assembler
\* has built the manifest
Finished(stage) ==
    CASE stage = "Resolver" -> defaults # NoDefaults /\ pc = "scanSkills"
      [] stage = "Scanner" -> pc = "generate" /\ idx > Len(entries)
      [] stage = "Assembler" ->
            /\ pc = "write"
            /\ marketplace = BuildMarketplace(options, defaults, skills)
      [] stage = "Writer" -> pc = "done"

\* C13, amended: the stages of one invocation are entered in the order
\* Default Resolver, Scanner, Manifest Assembler, Manifest Writer, each one
\* when the one before it has finished: package.json is consulted for the
\* defaults before the skills directory is scanned, so it is consulted
\* also by an invocation whose scan ends the run; no stage is entered
\* twice or skipped, and an invocation that completes has gone through
\* all four.
C13_ResolverBeforeScanner ==
    /\ [](/\ IsPrefix(stages, ResolverFirst)
          /\ pc = "done" => stages = ResolverFirst
          /\ pc \in {"scanSkills", "scanLoop"} => defaults # NoDefaults)
    /\ [][(stages' # stages /\ stages # <<>> /\ stages' # <<>>) =>
            Finished(stages[Len(stages)])]_vars

\* C13 witness: an invocation whose skills directory does not exist has
\* ended with exit code 1 after resolving the defaults from package.json
\* and entering the scanner
C13_Witness ==
    /\ pc = "exit"
    /\ exitCode = 1
    /\ skillsDirKind = "absent"
    /\ stages = <<"Resolver", "Scanner">>
    /\ defaults = getDefaults(pkgFile)

=============================================================================
